---- MODULE Spec2Model ----
(***************************************************************************)
(* Model of include/core/Entity.hpp: the abstract base class Entity        *)
(* (sf::Drawable + sf::Transformable) with its three lifecycle flags, the  *)
(* global-bounds / intersection / containment queries and the final draw   *)
(* entry point that gates the subclass hook onDraw.                        *)
(*                                                                         *)
(* Coordinates are integers and rotations are whole quarter turns, so the  *)
(* sine and cosine used by sf::Transformable::getTransform are exact.      *)
(* Vectors are pairs <<x, y>>; a rectangle is [position, size] as in       *)
(* sf::Rect; a transform is the row-major 3x3 matrix of sf::Transform.     *)
(***************************************************************************)
EXTENDS Integers, Sequences, FiniteSets, TLC

\* ------------------------------------------------------------------ bounds
\* setPosition/update place an entity on the diagonal points (5k, 5k), k <= MaxStep
MaxStep == 1
\* setRotation takes 0..MaxTurns quarter turns
MaxTurns == 1
\* setScale takes uniform factors 1..MaxScale
MaxScale == 2
\* the geometry checks turn an entity by 0..GeomTurns quarter turns
GeomTurns == 1
\* and scale it by -1 (mirrored in x) or uniformly by 1..GeomScale
GeomScale == 2

\* the two entities of the scene (intersects takes a pair)
Ent == {1, 2}
\* the entities the scene moves, turns, scales and updates; the other one
\* keeps the transform and the rectangle it was constructed with
Movers == {1}

\* ------------------------------------------------------------- sf::Vector2
VX(v) == v[1]
VY(v) == v[2]

\* -------------------------------------------------------------- sf::Rect
Rect(x, y, w, h) == [position |-> <<x, y>>, size |-> <<w, h>>]

Min2(a, b) == IF a < b THEN a ELSE b
Max2(a, b) == IF a < b THEN b ELSE a

\* sf::Rect<T>::contains: min side inclusive, max side exclusive
RectContainsClosed(r, p) ==
  LET minX == Min2(VX(r.position), VX(r.position) + VX(r.size))
      maxX == Max2(VX(r.position), VX(r.position) + VX(r.size))
      minY == Min2(VY(r.position), VY(r.position) + VY(r.size))
      maxY == Max2(VY(r.position), VY(r.position) + VY(r.size))
  IN  VX(p) >= minX /\ VX(p) <= maxX /\ VY(p) >= minY /\ VY(p) <= maxY

RectContains(r, p) ==
  LET minX == Min2(VX(r.position), VX(r.position) + VX(r.size))
      maxX == Max2(VX(r.position), VX(r.position) + VX(r.size))
      minY == Min2(VY(r.position), VY(r.position) + VY(r.size))
      maxY == Max2(VY(r.position), VY(r.position) + VY(r.size))
  IN  VX(p) >= minX /\ VX(p) < maxX /\ VY(p) >= minY /\ VY(p) < maxY

\* sf::Rect<T>::findIntersection: <<>> is std::nullopt, <<r>> holds the overlap
FindIntersectionInclusive(r1, r2) ==
  LET r1MinX == Min2(VX(r1.position), VX(r1.position) + VX(r1.size))
      r1MaxX == Max2(VX(r1.position), VX(r1.position) + VX(r1.size))
      r1MinY == Min2(VY(r1.position), VY(r1.position) + VY(r1.size))
      r1MaxY == Max2(VY(r1.position), VY(r1.position) + VY(r1.size))
      r2MinX == Min2(VX(r2.position), VX(r2.position) + VX(r2.size))
      r2MaxX == Max2(VX(r2.position), VX(r2.position) + VX(r2.size))
      r2MinY == Min2(VY(r2.position), VY(r2.position) + VY(r2.size))
      r2MaxY == Max2(VY(r2.position), VY(r2.position) + VY(r2.size))
      interLeft   == Max2(r1MinX, r2MinX)
      interTop    == Max2(r1MinY, r2MinY)
      interRight  == Min2(r1MaxX, r2MaxX)
      interBottom == Min2(r1MaxY, r2MaxY)
  IN  IF interLeft <= interRight /\ interTop <= interBottom
      THEN << Rect(interLeft, interTop,
                   interRight - interLeft, interBottom - interTop) >>
      ELSE << >>

FindIntersection(r1, r2) ==
  LET r1MinX == Min2(VX(r1.position), VX(r1.position) + VX(r1.size))
      r1MaxX == Max2(VX(r1.position), VX(r1.position) + VX(r1.size))
      r1MinY == Min2(VY(r1.position), VY(r1.position) + VY(r1.size))
      r1MaxY == Max2(VY(r1.position), VY(r1.position) + VY(r1.size))
      r2MinX == Min2(VX(r2.position), VX(r2.position) + VX(r2.size))
      r2MaxX == Max2(VX(r2.position), VX(r2.position) + VX(r2.size))
      r2MinY == Min2(VY(r2.position), VY(r2.position) + VY(r2.size))
      r2MaxY == Max2(VY(r2.position), VY(r2.position) + VY(r2.size))
      interLeft   == Max2(r1MinX, r2MinX)
      interTop    == Max2(r1MinY, r2MinY)
      interRight  == Min2(r1MaxX, r2MaxX)
      interBottom == Min2(r1MaxY, r2MaxY)
  IN  IF interLeft < interRight /\ interTop < interBottom
      THEN << Rect(interLeft, interTop,
                   interRight - interLeft, interBottom - interTop) >>
      ELSE << >>

HasValue(opt) == opt # << >>

\* ---------------------------------------------------------- sf::Transform
Identity == <<1, 0, 0,
              0, 1, 0,
              0, 0, 1>>

\* sf::Transform::transformPoint
TransformPoint(t, p) ==
  << t[1] * VX(p) + t[2] * VY(p) + t[3],
     t[4] * VX(p) + t[5] * VY(p) + t[6] >>

\* sf::Transform::combine / operator*: the matrix product left * right
Combine(l, r) ==
  << l[1]*r[1] + l[2]*r[4] + l[3]*r[7],
     l[1]*r[2] + l[2]*r[5] + l[3]*r[8],
     l[1]*r[3] + l[2]*r[6] + l[3]*r[9],
     l[4]*r[1] + l[5]*r[4] + l[6]*r[7],
     l[4]*r[2] + l[5]*r[5] + l[6]*r[8],
     l[4]*r[3] + l[5]*r[6] + l[6]*r[9],
     l[7]*r[1] + l[8]*r[4] + l[9]*r[7],
     l[7]*r[2] + l[8]*r[5] + l[9]*r[8],
     l[7]*r[3] + l[8]*r[6] + l[9]*r[9] >>

\* sf::Transform::transformRect: bounding box of the four transformed corners
TransformRect(t, r) ==
  LET x == VX(r.position)
      y == VY(r.position)
      w == VX(r.size)
      h == VY(r.size)
      p0 == TransformPoint(t, <<x, y>>)
      p1 == TransformPoint(t, <<x, y + h>>)
      p2 == TransformPoint(t, <<x + w, y>>)
      p3 == TransformPoint(t, <<x + w, y + h>>)
      minX == Min2(Min2(VX(p0), VX(p1)), Min2(VX(p2), VX(p3)))
      maxX == Max2(Max2(VX(p0), VX(p1)), Max2(VX(p2), VX(p3)))
      minY == Min2(Min2(VY(p0), VY(p1)), Min2(VY(p2), VY(p3)))
      maxY == Max2(Max2(VY(p0), VY(p1)), Max2(VY(p2), VY(p3)))
  IN  Rect(minX, minY, maxX - minX, maxY - minY)

\* cosine and sine of k quarter turns
Cos4(k) == CASE k % 4 = 0 -> 1 [] k % 4 = 1 -> 0 [] k % 4 = 2 -> -1 [] OTHER -> 0
Sin4(k) == CASE k % 4 = 0 -> 0 [] k % 4 = 1 -> 1 [] k % 4 = 2 -> 0 [] OTHER -> -1

\* ------------------------------------------------------------------- state
VARIABLES
  alive,        \* Entity::alive_
  active,       \* Entity::active_
  visible,      \* Entity::visible_
  position,     \* sf::Transformable position
  rotation,     \* sf::Transformable rotation, in quarter turns
  scale,        \* sf::Transformable scale factors
  localBounds,  \* what the subclass getLocalBounds() returns now
  ret,          \* the last call: [op, ent, arg, val]
  marked,       \* history: markForRemoval() has been called on the entity
  mutated       \* history: a flag mutator has been called on the entity

vars == <<alive, active, visible, position, rotation, scale, localBounds,
          ret, marked, mutated>>

flags == <<alive, active, visible>>
transformState == <<position, rotation, scale>>
history == <<marked, mutated>>

\* sf::Transformable::getTransform with the origin at its default (0, 0):
\* angle = -rotation, matrix ( sx*cos  sy*sin  tx ; -sx*sin  sy*cos  ty ; 0 0 1 )
TransformOf(pos, rot, sc) ==
  LET cosine == Cos4(rot)
      sine   == -Sin4(rot)
      sxc == VX(sc) * cosine
      syc == VY(sc) * cosine
      sxs == VX(sc) * sine
      sys == VY(sc) * sine
  IN  << sxc, sys, VX(pos),
         -sxs, syc, VY(pos),
         0, 0, 1 >>

GetTransform(e) == TransformOf(position[e], rotation[e], scale[e])

\* Entity::getLocalBounds (pure virtual): the subclass's current rectangle
GetLocalBounds(e) == localBounds[e]

\* Entity::getGlobalBounds
GetGlobalBoundsTranslateOnly(e) ==
  [position |-> << VX(GetLocalBounds(e).position) + VX(position[e]),
                   VY(GetLocalBounds(e).position) + VY(position[e]) >>,
   size |-> GetLocalBounds(e).size]

GetGlobalBounds(e) == TransformRect(GetTransform(e), GetLocalBounds(e))

\* Entity::intersects
IntersectsLocalOther(a, b) ==
  HasValue(FindIntersection(GetGlobalBounds(a), GetLocalBounds(b)))

Intersects(a, b) ==
  HasValue(FindIntersection(GetGlobalBounds(a), GetGlobalBounds(b)))

\* Entity::contains
Contains(e, p) == RectContains(GetGlobalBounds(e), p)

\* ------------------------------------------------------------ input sets
Positions == { <<5 * k, 5 * k>> : k \in 0..MaxStep }
Rotations == 0..MaxTurns
Scales == { <<k, k>> : k \in 1..MaxScale }
LocalBoundsSet == { Rect(0, 0, 10, 10), Rect(0, 0, 5, 5) }
\* render-state transforms handed to draw by the caller
Translate50 == <<1, 0, 5,  0, 1, 0,  0, 0, 1>>
QuarterTurn == <<0, -1, 0,  1, 0, 0,  0, 0, 1>>
IncomingStates == { Identity, Translate50, QuarterTurn }
\* the draw calls the subclass onDraw of each entity issues on the target
PrimsOf == [e \in Ent |-> e]
\* points handed to contains
ProbePoints == { <<0, 0>>, <<10, 10>>, <<15, 5>> }

Call(op, e, arg, val) == [op |-> op, ent |-> e, arg |-> arg, val |-> val]

\* ---------------------------------------------------------- construction
\* default member initialisers alive_/active_/visible_ = true, the default
\* sf::Transformable (position 0, rotation 0, scale 1)
InitHidden ==
  /\ alive = [e \in Ent |-> TRUE]
  /\ active = [e \in Ent |-> TRUE]
  /\ visible = [e \in Ent |-> FALSE]
  /\ position = [e \in Ent |-> <<0, 0>>]
  /\ rotation = [e \in Ent |-> 0]
  /\ scale = [e \in Ent |-> <<1, 1>>]
  /\ localBounds = [e \in Ent |-> Rect(0, 0, 10, 10)]
  /\ ret = Call("ctor", 0, 0, 0)
  /\ marked = [e \in Ent |-> FALSE]
  /\ mutated = [e \in Ent |-> FALSE]

Init ==
  /\ alive = [e \in Ent |-> TRUE]
  /\ active = [e \in Ent |-> TRUE]
  /\ visible = [e \in Ent |-> TRUE]
  /\ position = [e \in Ent |-> <<0, 0>>]
  /\ rotation = [e \in Ent |-> 0]
  /\ scale = [e \in Ent |-> <<1, 1>>]
  /\ localBounds = [e \in Ent |-> Rect(0, 0, 10, 10)]
  /\ ret = Call("ctor", 0, 0, 0)
  /\ marked = [e \in Ent |-> FALSE]
  /\ mutated = [e \in Ent |-> FALSE]

\* ------------------------------------------------------- lifecycle flags
\* bool isAlive() const
IsAlive(e) ==
  /\ ret' = Call("isAlive", e, 0, alive[e])
  /\ UNCHANGED <<flags, transformState, localBounds, history>>

\* void markForRemoval()
MarkForRemoval(e) ==
  /\ alive' = [alive EXCEPT ![e] = FALSE]
  /\ marked' = [marked EXCEPT ![e] = TRUE]
  /\ mutated' = [mutated EXCEPT ![e] = TRUE]
  /\ ret' = Call("markForRemoval", e, 0, 0)
  /\ UNCHANGED <<active, visible, transformState, localBounds>>

\* bool isActive() const
IsActive(e) ==
  /\ ret' = Call("isActive", e, 0, active[e])
  /\ UNCHANGED <<flags, transformState, localBounds, history>>

\* void setActive(bool active)
SetActiveWritesAlive(e, x) ==
  /\ alive' = [alive EXCEPT ![e] = x]
  /\ active' = [active EXCEPT ![e] = x]
  /\ mutated' = [mutated EXCEPT ![e] = TRUE]
  /\ ret' = Call("setActive", e, x, 0)
  /\ UNCHANGED <<visible, transformState, localBounds, marked>>

SetActive(e, x) ==
  /\ active' = [active EXCEPT ![e] = x]
  /\ mutated' = [mutated EXCEPT ![e] = TRUE]
  /\ ret' = Call("setActive", e, x, 0)
  /\ UNCHANGED <<alive, visible, transformState, localBounds, marked>>

\* bool isVisible() const
IsVisible(e) ==
  /\ ret' = Call("isVisible", e, 0, visible[e])
  /\ UNCHANGED <<flags, transformState, localBounds, history>>

\* void setVisible(bool visible)
SetVisibleWritesActive(e, x) ==
  /\ visible' = [visible EXCEPT ![e] = x]
  /\ active' = [active EXCEPT ![e] = x]
  /\ mutated' = [mutated EXCEPT ![e] = TRUE]
  /\ ret' = Call("setVisible", e, x, 0)
  /\ UNCHANGED <<alive, transformState, localBounds, marked>>

SetVisible(e, x) ==
  /\ visible' = [visible EXCEPT ![e] = x]
  /\ mutated' = [mutated EXCEPT ![e] = TRUE]
  /\ ret' = Call("setVisible", e, x, 0)
  /\ UNCHANGED <<alive, active, transformState, localBounds, marked>>

\* ------------------------------------------ inherited sf::Transformable
SetPosition(e, p) ==
  /\ position' = [position EXCEPT ![e] = p]
  /\ ret' = Call("setPosition", e, p, 0)
  /\ UNCHANGED <<flags, rotation, scale, localBounds, history>>

SetRotation(e, k) ==
  /\ rotation' = [rotation EXCEPT ![e] = k]
  /\ ret' = Call("setRotation", e, k, 0)
  /\ UNCHANGED <<flags, position, scale, localBounds, history>>

SetScale(e, s) ==
  /\ scale' = [scale EXCEPT ![e] = s]
  /\ ret' = Call("setScale", e, s, 0)
  /\ UNCHANGED <<flags, position, rotation, localBounds, history>>

\* virtual void update(float dt) = 0: the subclass moves the entity and may
\* change the rectangle it reports; the flags are private to Entity
Update(e, p, b) ==
  /\ position' = [position EXCEPT ![e] = p]
  /\ localBounds' = [localBounds EXCEPT ![e] = b]
  /\ ret' = Call("update", e, 0, 0)
  /\ UNCHANGED <<flags, rotation, scale, history>>

\* ---------------------------------------------------------------- queries
GetGlobalBoundsCall(e) ==
  /\ ret' = Call("getGlobalBounds", e, 0, GetGlobalBounds(e))
  /\ UNCHANGED <<flags, transformState, localBounds, history>>

IntersectsCallDeactivates(a, b) ==
  /\ ret' = Call("intersects", a, b, Intersects(a, b))
  /\ active' = IF Intersects(a, b) THEN [active EXCEPT ![b] = FALSE] ELSE active
  /\ UNCHANGED <<alive, visible, transformState, localBounds, history>>

IntersectsCall(a, b) ==
  /\ ret' = Call("intersects", a, b, Intersects(a, b))
  /\ UNCHANGED <<flags, transformState, localBounds, history>>

ContainsCall(e, p) ==
  /\ ret' = Call("contains", e, p, Contains(e, p))
  /\ UNCHANGED <<flags, transformState, localBounds, history>>

\* ------------------------------------------------------------------- draw
\* if (!visible_ || !alive_) return;
DrawSkipsVisibleOnly(e) == ~visible[e]

DrawSkips(e) == ~visible[e] \/ ~alive[e]

\* states.transform *= this->getTransform();
DrawComposeReversed(states, e) == Combine(GetTransform(e), states)

DrawCompose(states, e) == Combine(states, GetTransform(e))

\* What one call draw(target, states) does: the value of the by-value
\* parameter states when draw returns, how often onDraw ran and with which
\* render state, and the draw calls the subclass hook made on the target.
DrawOutcome(e, incoming) ==
  IF DrawSkips(e)
  THEN [states |-> incoming, onDrawCalls |-> 0, onDrawArg |-> << >>,
        targetDraws |-> 0]
  ELSE LET states == DrawCompose(incoming, e)
       IN  [states |-> states, onDrawCalls |-> 1, onDrawArg |-> states,
            targetDraws |-> PrimsOf[e]]

Draw(e, incoming) ==
  /\ ret' = Call("draw", e, incoming, DrawOutcome(e, incoming))
  /\ UNCHANGED <<flags, transformState, localBounds, history>>

\* ------------------------------------------------------------ behaviours
Next ==
  \/ \E e \in Ent : IsAlive(e)
  \/ \E e \in Ent : MarkForRemoval(e)
  \/ \E e \in Ent : IsActive(e)
  \/ \E e \in Ent, x \in BOOLEAN : SetActive(e, x)
  \/ \E e \in Ent : IsVisible(e)
  \/ \E e \in Ent, x \in BOOLEAN : SetVisible(e, x)
  \/ \E e \in Movers, p \in Positions : SetPosition(e, p)
  \/ \E e \in Movers, k \in Rotations : SetRotation(e, k)
  \/ \E e \in Movers, s \in Scales : SetScale(e, s)
  \/ \E e \in Movers, p \in Positions, b \in LocalBoundsSet : Update(e, p, b)
  \/ \E e \in Ent : GetGlobalBoundsCall(e)
  \/ \E a \in Ent, b \in Ent : IntersectsCall(a, b)
  \/ \E e \in Ent, p \in ProbePoints : ContainsCall(e, p)
  \/ \E e \in Ent, t \in IncomingStates : Draw(e, t)

Spec == Init /\ [][Next]_vars

\* ---------------------------------------- geometry over drawn placements
\* The rectangle queries are pure functions of the two entities' transforms
\* and local rectangles: GeomSpec draws those from the sets below (only the
\* movers are scaled) and applies the three queries.
GeomPositions == { <<0, 0>>, <<5, 5>>, <<10, 10>>, <<20, 20>> }
GeomRotations == 0..GeomTurns
GeomScales == { <<-1, 1>> } \cup { <<k, k>> : k \in 1..GeomScale }

GeomInit ==
  /\ alive = [e \in Ent |-> TRUE]
  /\ active = [e \in Ent |-> TRUE]
  /\ visible = [e \in Ent |-> TRUE]
  /\ position \in [Ent -> GeomPositions]
  /\ rotation \in [Ent -> GeomRotations]
  /\ scale \in { f \in [Ent -> GeomScales] : \A e \in Ent \ Movers : f[e] = <<1, 1>> }
  /\ localBounds \in [Ent -> LocalBoundsSet]
  /\ ret = Call("ctor", 0, 0, 0)
  /\ marked = [e \in Ent |-> FALSE]
  /\ mutated = [e \in Ent |-> FALSE]

GeomNext ==
  \/ \E e \in Ent : GetGlobalBoundsCall(e)
  \/ \E a \in Ent, b \in Ent : IntersectsCall(a, b)
  \/ \E e \in Ent, p \in ProbePoints : ContainsCall(e, p)

GeomSpec == GeomInit /\ [][GeomNext]_vars

\* ================================================================ claims
Skipped(e) == ~visible[e] \/ ~alive[e]

\* C1: a draw call on an entity that is not visible or not alive runs the
\* onDraw hook zero times and issues zero draw calls on the render target,
\* whatever setters and transform changes came before.
C1_HiddenOrDeadDrawsNothing ==
  (ret.op = "draw" /\ Skipped(ret.ent))
    => (ret.val.onDrawCalls = 0 /\ ret.val.targetDraws = 0
        /\ ret.val.onDrawArg = << >>)

\* a visible entity that was marked for removal, moved, and then drawn
C1_Witness ==
  /\ ret.op = "draw"
  /\ visible[ret.ent] /\ ~alive[ret.ent]
  /\ position[ret.ent] # <<0, 0>>

\* three points that are not collinear: two affine maps agreeing on them are equal
FramePoints == { <<0, 0>>, <<1, 0>>, <<0, 1>> }

\* C2: a draw call on a visible, alive entity runs onDraw exactly once, with
\* the render state whose transform maps every point p to
\* incoming(entity(p)), i.e. incoming * entity; the gate comes first (a
\* skipped call leaves states as it came in) and the hook receives the
\* already composed states.
C2_DrawComposesIncomingThenEntity ==
  ret.op = "draw" =>
    IF Skipped(ret.ent)
    THEN ret.val.states = ret.arg
    ELSE /\ ret.val.onDrawCalls = 1
         /\ ret.val.onDrawArg = ret.val.states
         /\ \A p \in FramePoints :
              TransformPoint(ret.val.onDrawArg, p)
                = TransformPoint(ret.arg, TransformPoint(GetTransform(ret.ent), p))
         /\ <<ret.val.onDrawArg[7], ret.val.onDrawArg[8], ret.val.onDrawArg[9]>>
              = <<0, 0, 1>>

\* a drawn entity whose transform does not commute with the incoming one
C2_Witness ==
  /\ ret.op = "draw"
  /\ ret.val.onDrawCalls = 1
  /\ Combine(ret.arg, GetTransform(ret.ent)) # Combine(GetTransform(ret.ent), ret.arg)

\* C3: once markForRemoval() has been called on an entity it is never alive
\* again, and isAlive() answers false, whatever calls follow.
C3_AliveLatch ==
  /\ \A e \in Ent : marked[e] => ~alive[e]
  /\ (ret.op = "isAlive" /\ marked[ret.ent]) => ret.val = FALSE

\* setActive(true) called on an entity that was marked for removal before
C3_Witness ==
  /\ ret.op = "setActive"
  /\ ret.arg = TRUE
  /\ marked[ret.ent]

\* the four corners of a rectangle
Corners(r) ==
  { << VX(r.position) + dx, VY(r.position) + dy >> :
      dx \in {0, VX(r.size)}, dy \in {0, VY(r.size)} }

\* g is the smallest axis-aligned rectangle that holds the image of r under t
IsImageBox(g, t, r) ==
  LET img == { TransformPoint(t, c) : c \in Corners(r) }
      left == VX(g.position)
      top == VY(g.position)
      right == VX(g.position) + VX(g.size)
      bottom == VY(g.position) + VY(g.size)
  IN  /\ \A q \in img : left <= VX(q) /\ VX(q) <= right
                         /\ top <= VY(q) /\ VY(q) <= bottom
      /\ \E q \in img : VX(q) = left
      /\ \E q \in img : VX(q) = right
      /\ \E q \in img : VY(q) = top
      /\ \E q \in img : VY(q) = bottom

\* C5: getGlobalBounds() is the current transform applied to the current
\* local bounds (the bounding box of the transformed rectangle) whatever the
\* alive, active and visible flags are; local (0,0,10,10) under
\* translate(5,5) gives (5,5,10,10).
C5_GlobalBoundsIsTransformedLocal ==
  ret.op = "getGlobalBounds" =>
    /\ IsImageBox(ret.val, GetTransform(ret.ent), localBounds[ret.ent])
    /\ ( ( /\ localBounds[ret.ent] = Rect(0, 0, 10, 10)
           /\ GetTransform(ret.ent) = <<1, 0, 5,  0, 1, 5,  0, 0, 1>> )
         => ret.val = Rect(5, 5, 10, 10) )

\* getGlobalBounds() of a hidden, removed entity that is turned, scaled and moved
C5_Witness ==
  /\ ret.op = "getGlobalBounds"
  /\ ~alive[ret.ent] /\ ~visible[ret.ent]
  /\ rotation[ret.ent] = 1 /\ scale[ret.ent] = <<2, 2>>
  /\ position[ret.ent] = <<5, 5>>

\* C8: setActive(x) sets active to x and setVisible(x) sets visible to x, in
\* either direction and at any time; each leaves the other two flags and the
\* transform alone, on every entity; markForRemoval() leaves active, visible
\* and the transform alone.
C8_IndependentFlags ==
  /\ [](\A e \in Ent, x \in BOOLEAN :
          ENABLED SetActive(e, x) /\ ENABLED SetVisible(e, x))
  /\ [][ (ret'.op = "setActive") =>
            ( /\ active' = [active EXCEPT ![ret'.ent] = ret'.arg]
              /\ alive' = alive /\ visible' = visible
              /\ transformState' = transformState ) ]_vars
  /\ [][ (ret'.op = "setVisible") =>
            ( /\ visible' = [visible EXCEPT ![ret'.ent] = ret'.arg]
              /\ alive' = alive /\ active' = active
              /\ transformState' = transformState ) ]_vars
  /\ [][ (ret'.op = "markForRemoval") =>
            ( /\ active' = active /\ visible' = visible
              /\ transformState' = transformState ) ]_vars

\* setVisible(true) on a removed, inactive entity: visible is set again
\* while alive and active stay false
C8_Witness ==
  /\ ret.op = "setVisible" /\ ret.arg = TRUE
  /\ visible[ret.ent] /\ ~alive[ret.ent] /\ ~active[ret.ent]

PureOps == { "isAlive", "isActive", "isVisible", "getGlobalBounds",
             "intersects", "contains", "draw" }

\* C9: isAlive, isActive, isVisible, getGlobalBounds, intersects, contains and
\* draw (skipped or not) change no flag and no transform, of the entity they
\* are called on or of any other entity.
C9_QueriesAndDrawChangeNothing ==
  [][ ret'.op \in PureOps => (flags' = flags /\ transformState' = transformState) ]_vars

\* intersects() answered true for two different entities, the other still active
C9_Witness ==
  /\ ret.op = "intersects"
  /\ ret.ent # ret.arg
  /\ ret.val = TRUE
  /\ active[ret.arg]

FlagMutators == { "setActive", "setVisible", "markForRemoval" }

\* C10: an entity on which no flag mutator was called yet is alive, active
\* and visible (and the three getters say so); a flag of an entity changes
\* only in a setActive, setVisible or markForRemoval call on that entity.
C10_ConstructedAllTrue ==
  /\ [](\A e \in Ent : ~mutated[e] => (alive[e] /\ active[e] /\ visible[e]))
  /\ []((ret.op \in {"isAlive", "isActive", "isVisible"} /\ ~mutated[ret.ent])
          => ret.val = TRUE)
  /\ [][ \A e \in Ent :
            <<alive'[e], active'[e], visible'[e]>> # <<alive[e], active[e], visible[e]>>
              => (ret'.op \in FlagMutators /\ ret'.ent = e) ]_vars

\* isVisible() on an entity that was moved and updated but never mutated
C10_Witness ==
  /\ ret.op = "isVisible"
  /\ ~mutated[ret.ent]
  /\ position[ret.ent] # <<0, 0>>

\* C4: intersects is symmetric: for every pair of entities a.intersects(b)
\* and b.intersects(a) give the same answer, and an answer just returned
\* equals the answer of the swapped call.
C4_IntersectsSymmetric ==
  /\ \A a \in Ent, b \in Ent : Intersects(a, b) = Intersects(b, a)
  /\ ret.op = "intersects" => ret.val = Intersects(ret.arg, ret.ent)

\* two different entities with different global bounds that intersect
C4_Witness ==
  /\ ret.op = "intersects"
  /\ ret.ent # ret.arg
  /\ ret.val = TRUE
  /\ GetGlobalBounds(ret.ent) # GetGlobalBounds(ret.arg)
  /\ rotation[ret.arg] = 1

RLeft(r) == VX(r.position)
RTop(r) == VY(r.position)
RRight(r) == VX(r.position) + VX(r.size)
RBottom(r) == VY(r.position) + VY(r.size)

\* no axis separates the two rectangles: they overlap in a region of
\* positive width and height
Overlap(r1, r2) ==
  ~ ( \/ RRight(r1) <= RLeft(r2) \/ RRight(r2) <= RLeft(r1)
      \/ RBottom(r1) <= RTop(r2) \/ RBottom(r2) <= RTop(r1) )

\* C6: intersects(other) is true exactly when the two global bounds overlap;
\* global bounds (5,5,10,10) and (10,10,10,10) intersect, in the region
\* (10,10)-(15,15), and (5,5,10,10) and (20,20,5,5) do not.
C6_IntersectsIffOverlap ==
  ret.op = "intersects" =>
    LET g1 == GetGlobalBounds(ret.ent)
        g2 == GetGlobalBounds(ret.arg)
    IN  /\ ret.val = Overlap(g1, g2)
        /\ (g1 = Rect(5, 5, 10, 10) /\ g2 = Rect(10, 10, 10, 10))
             => ( /\ ret.val = TRUE
                  /\ FindIntersection(g1, g2) = << Rect(10, 10, 5, 5) >> )
        /\ (g1 = Rect(5, 5, 10, 10) /\ g2 = Rect(20, 20, 5, 5))
             => ret.val = FALSE

\* the first pair of the example: (5,5,10,10) against (10,10,10,10)
C6_Witness ==
  /\ ret.op = "intersects"
  /\ GetGlobalBounds(ret.ent) = Rect(5, 5, 10, 10)
  /\ GetGlobalBounds(ret.arg) = Rect(10, 10, 10, 10)
  /\ ret.val = TRUE

\* the second pair of the example: (5,5,10,10) against (20,20,5,5)
C6_ExampleApart ==
  /\ ret.op = "intersects"
  /\ GetGlobalBounds(ret.ent) = Rect(5, 5, 10, 10)
  /\ GetGlobalBounds(ret.arg) = Rect(20, 20, 5, 5)
  /\ ret.val = FALSE

\* the points of the 5-unit lattice that can lie in a global rectangle's
\* lower-left corner region: every overlap of two placed rectangles has its
\* top-left corner here
GridSteps == Max2(2 * GeomScale, 4)
PointGrid == { <<5 * i, 5 * j>> : i \in (-GridSteps)..GridSteps, j \in (-GridSteps)..GridSteps }

\* p lies in r, the left and top edges included, the right and bottom excluded
Inside(r, p) ==
  /\ RLeft(r) <= VX(p) /\ VX(p) < RRight(r)
  /\ RTop(r) <= VY(p) /\ VY(p) < RBottom(r)

\* C7: contains(p) is true exactly when p lies in the global bounds, and it
\* uses the boundary convention of intersects: two entities intersect
\* exactly when some point is contained in both.
C7_ContainsConsistentWithIntersects ==
  /\ ret.op = "contains" => ret.val = Inside(GetGlobalBounds(ret.ent), ret.arg)
  /\ ret.op = "intersects" =>
       (ret.val <=> \E p \in PointGrid : Contains(ret.ent, p) /\ Contains(ret.arg, p))

\* two rectangles that only touch: their closed rectangles share a point,
\* intersects says no
C7_Witness ==
  /\ ret.op = "intersects"
  /\ ret.val = FALSE
  /\ \E p \in PointGrid : /\ RectContainsClosed(GetGlobalBounds(ret.ent), p)
                           /\ RectContainsClosed(GetGlobalBounds(ret.arg), p)

====
